---------------------------- MODULE Spec2Model ----------------------------
(***************************************************************************)
(* The optional-value container Val[T] of package omit, in its two         *)
(* near-duplicate sources:                                                 *)
(*    src/omit/omit.go       (New, SetPtr, Ptr, allow-list Value)          *)
(*    src/unnamed/part_000   (FromCond, GetOrZero, MarshalJSONIsZero,      *)
(*                            TextMarshaler delegation, raw Value)         *)
(* A Go value is a pair <<type, payload>>; byte strings are sequences of   *)
(* one-character strings, so encoders format and decoders parse.           *)
(***************************************************************************)
EXTENDS Integers, Sequences, FiniteSets, TLC

VARIABLES impl, T, v, ret, paired, w, retw

vars == <<impl, T, v, ret, paired, w, retw>>

\* ------------------------------------------------------------- bounds
\* Largest integer drawn as an input (also as slice element / struct ID).
MaxInt == 12
\* Longest slice drawn as an input.
MaxElems == 2

\* ------------------------------------------------------ program constants
StateUnset == 0
StateSet == 1

\* The two sources of package omit.
Impls == {"omit", "part_000"}

\* --------------------------------------------------------------- Go values
TypeOf(x) == x[1]
Payload(x) == x[2]
Mk(t, p) == <<t, p>>

\* The nil interface value / "no value".
NoVal == Mk("nil", 0)

\* The instantiations T of Val[T] that are modelled.
Types == {"string", "int", "uint8", "uint64", "bool", "float64", "bytes",
          "ints", "map", "ptrInt", "ptrStruct", "struct", "time", "valuer",
          "ip"}

\* The keys of map[string]int that occur, in sorted order.
Keys == << <<"a">>, <<"b">> >>

\* uint64 / int64 bit patterns are four 16-bit limbs, most significant first.
Limb == 2^16
ZeroLimbs == <<0, 0, 0, 0>>
HighBit == <<32768, 0, 0, 0>>
AllOnes == <<65535, 65535, 65535, 65535>>

\* var zero T
Zero(t) ==
  CASE t = "string"    -> Mk(t, <<>>)
    [] t = "int"       -> Mk(t, 0)
    [] t = "uint8"     -> Mk(t, 0)
    [] t = "uint64"    -> Mk(t, ZeroLimbs)
    [] t = "bool"      -> Mk(t, FALSE)
    [] t = "float64"   -> Mk(t, 0)
    [] t = "bytes"     -> Mk(t, [nil |-> TRUE, e |-> <<>>])
    [] t = "ints"      -> Mk(t, [nil |-> TRUE, e |-> <<>>])
    [] t = "map"       -> Mk(t, [nil |-> TRUE, m |-> {}])
    [] t = "ptrInt"    -> Mk(t, [nil |-> TRUE, p |-> 0])
    [] t = "ptrStruct" -> Mk(t, [nil |-> TRUE, p |-> 0])
    [] t = "struct"    -> Mk(t, 0)
    [] t = "time"      -> Mk(t, 0)
    [] t = "valuer"    -> Mk(t, 0)
    [] t = "ip"        -> Mk(t, [nil |-> TRUE, e |-> <<>>])

\* Integers drawn as inputs.
IntInputs == {-1, 0, 5, MaxInt}

\* Slices of int drawn as inputs (non-nil).
IntSlices == {[i \in 1..n |-> i] : n \in 0..MaxElems}

\* Maps drawn as inputs: sets of <<key, value>> with distinct keys.
MapInputs == {{}, {<< <<"a">>, 1>>}, {<< <<"b">>, 2>>},
              {<< <<"a">>, 1>>, << <<"b">>, 2>>}}

\* The values of type t drawn as inputs.
Values(t) ==
  CASE t = "string"    -> {Mk(t, <<>>), Mk(t, <<"h", "i">>), Mk(t, <<"5">>)}
    [] t = "int"       -> {Mk(t, n) : n \in IntInputs}
    [] t = "uint8"     -> {Mk(t, 0), Mk(t, 200)}
    [] t = "uint64"    -> {Mk(t, ZeroLimbs), Mk(t, <<0, 0, 0, 7>>),
                           Mk(t, HighBit), Mk(t, AllOnes)}
    [] t = "bool"      -> {Mk(t, FALSE), Mk(t, TRUE)}
    [] t = "float64"   -> {Mk(t, 0), Mk(t, 3)}
    [] t = "bytes"     -> {Mk(t, [nil |-> TRUE, e |-> <<>>]),
                           Mk(t, [nil |-> FALSE, e |-> <<"h", "i">>])}
    [] t = "ints"      -> {Mk(t, [nil |-> TRUE, e |-> <<>>])} \cup
                          {Mk(t, [nil |-> FALSE, e |-> s]) : s \in IntSlices}
    [] t = "map"       -> {Mk(t, [nil |-> TRUE, m |-> {}])} \cup
                          {Mk(t, [nil |-> FALSE, m |-> m]) : m \in MapInputs}
    [] t = "ptrInt"    -> {Mk(t, [nil |-> TRUE, p |-> 0]),
                           Mk(t, [nil |-> FALSE, p |-> 0]),
                           Mk(t, [nil |-> FALSE, p |-> 5])}
    [] t = "ptrStruct" -> {Mk(t, [nil |-> TRUE, p |-> 0]),
                           Mk(t, [nil |-> FALSE, p |-> 0]),
                           Mk(t, [nil |-> FALSE, p |-> 7])}
    [] t = "struct"    -> {Mk(t, 0), Mk(t, 7)}
    [] t = "time"      -> {Mk(t, 0), Mk(t, 1)}
    [] t = "valuer"    -> {Mk(t, 0)}
    [] t = "ip"        -> {Mk(t, [nil |-> TRUE, e |-> <<>>]),
                           Mk(t, [nil |-> FALSE, e |-> <<1, 1, 1, 1>>])}

\* A *T argument: nil, or a pointer to x.
NilPtr == Mk("ptr", [nil |-> TRUE, p |-> NoVal])
PtrTo(x) == Mk("ptr", [nil |-> FALSE, p |-> x])
Pointers(t) == {NilPtr} \cup {PtrTo(x) : x \in Values(t)}

\* ------------------------------------------------------------ the container
\* type Val[T any] struct { value T; state state }
Val(value, state) == [value |-> value, state |-> state]

\* Val[T]{}
ZeroVal(t) == Val(Zero(t), StateUnset)

\* No container returned.
NoCont == Val(NoVal, StateUnset)

\* What one call leaves behind for its caller: the receiver before the
\* call, the arguments, and everything returned.
Result(op, pre, arg) ==
  [op |-> op, pre |-> pre, arg |-> arg, arg2 |-> NoVal,
   val |-> NoVal, ok |-> FALSE, err |-> "", panicked |-> FALSE,
   out |-> NoCont, calls |-> 0, ptr |-> "nil", cell |-> NoVal]

\* The receiver after a call, with what the call returned.
Outcome(c, r) == [c |-> c, r |-> r]


\* ------------------------------------------------------------ construction
\* func New[T any]() Val[T]                          (src/omit/omit.go only)
New(t) == ZeroVal(t)

\* func From[T any](val T) Val[T]
From(val) == Val(val, StateSet)

\* func FromPtr[T any](val *T) Val[T]
FromPtr(t, val) ==
  IF Payload(val).nil THEN Val(Zero(t), StateUnset)
  ELSE Val(Payload(val).p, StateSet)

\* func FromCond[T any](val T, ok bool) Val[T]       (part_000 only)
FromCond(val, ok) ==
  IF ~ok THEN ZeroVal(TypeOf(val))
  ELSE Val(val, StateSet)

\* --------------------------------------------------------------- accessors
\* Get that hands out the stored value whatever the state.
Get_Stale(c) ==
  LET r == Result("Get", c, NoVal) IN
  Outcome(c, [r EXCEPT !.val = c.value, !.ok = c.state = StateSet])

\* func (v Val[T]) Get() (T, bool)
Get(c) ==
  LET r == Result("Get", c, NoVal) IN
  IF c.state = StateSet
    THEN Outcome(c, [r EXCEPT !.val = c.value, !.ok = TRUE])
    ELSE Outcome(c, [r EXCEPT !.val = Zero(TypeOf(c.value)), !.ok = FALSE])

\* func (v Val[T]) GetOr(fallback T) T
GetOr(c, fallback) ==
  LET r == Result("GetOr", c, fallback) IN
  IF c.state = StateSet
    THEN Outcome(c, [r EXCEPT !.val = c.value])
    ELSE Outcome(c, [r EXCEPT !.val = fallback])

\* func (v Val[T]) GetOrZero() T                     (part_000 only)
GetOrZero(c) ==
  LET r == Result("GetOrZero", c, NoVal) IN
  IF c.state # StateSet
    THEN Outcome(c, [r EXCEPT !.val = Zero(TypeOf(c.value))])
    ELSE Outcome(c, [r EXCEPT !.val = c.value])

\* func (v Val[T]) MustGet() T: panics when Get reports !ok.
MustGet(c) ==
  LET r == Result("MustGet", c, NoVal)
      g == Get(c).r
  IN IF ~g.ok
       THEN Outcome(c, [r EXCEPT !.panicked = TRUE])
       ELSE Outcome(c, [r EXCEPT !.val = g.val])

\* func (v Val[T]) IsSet() bool
IsSet(c) == c.state = StateSet

\* func (v Val[T]) IsUnset() bool
IsUnset(c) == c.state = StateUnset

\* func (v Val[T]) State() state
State(c) == c.state

\* --------------------------------------------------------------- transform
\* The functions handed to Map. "inc" is func(i int) int { return i + 1 },
\* "isZero" maps A to bool.
Fns == {"id", "zero", "inc", "isZero"}

FnDefined(f, x) == f = "inc" => TypeOf(x) = "int"

FnResultType(f, t) == IF f = "isZero" THEN "bool" ELSE t

ApplyFn(f, x) ==
  CASE f = "id"     -> x
    [] f = "zero"   -> Zero(TypeOf(x))
    [] f = "inc"    -> Mk("int", Payload(x) + 1)
    [] f = "isZero" -> Mk("bool", x = Zero(TypeOf(x)))

\* Map that applies fn whatever the state.
Map_Always(c, fn) ==
  LET r == Result("Map", c, Mk("func", fn)) IN
  Outcome(c, [r EXCEPT !.out = From(ApplyFn(fn, c.value)), !.calls = 1])

\* func (v Val[T]) Map(fn func(T) T) Val[T]
Map(c, fn) ==
  LET r == Result("Map", c, Mk("func", fn)) IN
  IF c.state = StateSet
    THEN Outcome(c, [r EXCEPT !.out = From(ApplyFn(fn, c.value)),
                              !.calls = 1])
    ELSE Outcome(c, [r EXCEPT !.out = Val(Zero(TypeOf(c.value)), c.state)])

\* func Map[A any, B any](v Val[A], fn func(A) B) Val[B]
MapFree(c, fn) ==
  LET r == Result("MapFree", c, Mk("func", fn)) IN
  IF c.state = StateSet
    THEN Outcome(c, [r EXCEPT !.out = From(ApplyFn(fn, c.value)),
                              !.calls = 1])
    ELSE Outcome(c, [r EXCEPT
           !.out = Val(Zero(FnResultType(fn, TypeOf(c.value))), c.state)])

\* ---------------------------------------------------------------- mutators
\* func (v *Val[T]) Set(val T)
Set(c, val) ==
  Outcome(Val(val, StateSet), Result("Set", c, val))

\* func (v *Val[T]) Unset()
Unset(c) ==
  Outcome(Val(Zero(TypeOf(c.value)), StateUnset), Result("Unset", c, NoVal))

\* func (v *Val[T]) SetPtr(val *T)                   (src/omit/omit.go only)
SetPtr(c, val) ==
  LET r == Result("SetPtr", c, val) IN
  IF Payload(val).nil
    THEN Outcome([c EXCEPT !.state = StateUnset], r)
    ELSE Outcome(Val(Payload(val).p, StateSet), r)

\* ---------------------------------------------------------------- pointers
\* Ptr with a pointer receiver: &v.value is the container's own field.
PtrTarget_Self == "self"

\* Where the pointer returned by Ptr points: the receiver of Ptr is a copy
\* of the container (value receiver), and &v.value is the address of the
\* copy's field.
PtrTarget == "copy"

\* func (v Val[T]) Ptr() *T                          (src/omit/omit.go only)
Ptr(c) ==
  LET r == Result("Ptr", c, NoVal) IN
  IF c.state = StateSet
    THEN Outcome(c, [r EXCEPT !.ptr = PtrTarget, !.cell = c.value])
    ELSE Outcome(c, r)

\* *p, for the pointer p the call r returned.
Deref(c, r) == IF r.ptr = "self" THEN c.value ELSE r.cell

\* *p = x, for the pointer p the call r returned.
Store(c, r, x) ==
  IF r.ptr = "self"
    THEN Outcome([c EXCEPT !.value = x],
                 [r EXCEPT !.op = "Store", !.pre = c, !.arg = x])
    ELSE Outcome(c, [r EXCEPT !.op = "Store", !.pre = c, !.arg = x,
                              !.cell = x])

\* ------------------------------------------------- strconv (Go standard library)
DigitChars == <<"0", "1", "2", "3", "4", "5", "6", "7", "8", "9">>

IsDigit(ch) == \E d \in 1..10 : DigitChars[d] = ch

DigitVal(ch) == (CHOOSE d \in 1..10 : DigitChars[d] = ch) - 1

RECURSIVE FormatNat(_)
\* strconv.FormatUint(n, 10)
FormatNat(n) ==
  IF n < 10 THEN <<DigitChars[n + 1]>>
  ELSE FormatNat(n \div 10) \o <<DigitChars[(n % 10) + 1]>>

\* strconv.FormatInt(n, 10)
FormatInt(n) == IF n < 0 THEN <<"-">> \o FormatNat(-n) ELSE FormatNat(n)

RECURSIVE DigitsValue(_, _)
\* The number the digits s denote, after the digits already read as acc.
DigitsValue(s, acc) ==
  IF s = <<>> THEN acc
  ELSE DigitsValue(Tail(s), acc * 10 + DigitVal(Head(s)))

AllDigits(s) == s # <<>> /\ \A i \in 1..Len(s) : IsDigit(s[i])

\* strconv.ParseUint(s, 10, bits): digits only, below 2^bits.
ParseUint(s, bits) ==
  IF AllDigits(s) /\ Len(s) <= 4 /\ DigitsValue(s, 0) < 2^bits
    THEN [ok |-> TRUE, n |-> DigitsValue(s, 0)]
    ELSE [ok |-> FALSE, n |-> 0]

\* strconv.ParseInt(s, 10, 64): an optional sign, then digits.
ParseInt(s) ==
  LET signed == s # <<>> /\ Head(s) \in {"-", "+"}
      digits == IF signed THEN Tail(s) ELSE s
  IN IF AllDigits(digits) /\ Len(digits) <= 4
       THEN [ok |-> TRUE,
             n |-> IF signed /\ Head(s) = "-" THEN -DigitsValue(digits, 0)
                   ELSE DigitsValue(digits, 0)]
       ELSE [ok |-> FALSE, n |-> 0]

\* strconv.ParseBool
ParseBool(s) ==
  CASE s \in {<<"1">>, <<"t">>, <<"T">>, <<"t", "r", "u", "e">>,
              <<"T", "R", "U", "E">>, <<"T", "r", "u", "e">>}
         -> [ok |-> TRUE, b |-> TRUE]
    [] s \in {<<"0">>, <<"f">>, <<"F">>, <<"f", "a", "l", "s", "e">>,
              <<"F", "A", "L", "S", "E">>, <<"F", "a", "l", "s", "e">>}
         -> [ok |-> TRUE, b |-> FALSE]
    [] OTHER -> [ok |-> FALSE, b |-> FALSE]

\* strconv.FormatBool
FormatBool(b) ==
  IF b THEN <<"t", "r", "u", "e">> ELSE <<"f", "a", "l", "s", "e">>

\* ---------------------------------------- encoding/json (Go standard library)
\* globaldata.JSONNull = []byte("null")
JSONNull == <<"n", "u", "l", "l">>

\* Whether s holds lit at index i.
HasAt(s, i, lit) ==
  /\ i + Len(lit) - 1 <= Len(s)
  /\ \A k \in 1..Len(lit) : s[i + k - 1] = lit[k]

RECURSIVE SkipWS(_, _)
SkipWS(s, i) == IF i <= Len(s) /\ s[i] = " " THEN SkipWS(s, i + 1) ELSE i

RECURSIVE DigitsEnd(_, _)
\* The index after the run of digits starting at i.
DigitsEnd(s, i) ==
  IF i <= Len(s) /\ IsDigit(s[i]) THEN DigitsEnd(s, i + 1) ELSE i

RECURSIVE QuoteEnd(_, _)
\* The index of the closing quote at or after i, or 0.
QuoteEnd(s, i) ==
  IF i > Len(s) THEN 0
  ELSE IF s[i] = "\"" THEN i ELSE QuoteEnd(s, i + 1)

JFail == [ok |-> FALSE, ast |-> NoVal, next |-> 0]
JOk(ast, next) == [ok |-> TRUE, ast |-> ast, next |-> next]

\* A number literal at i: -?digits (integers only; no fraction or exponent
\* occurs in the documents drawn).
JNumber(s, i) ==
  LET neg == i <= Len(s) /\ s[i] = "-"
      from == IF neg THEN i + 1 ELSE i
      to == DigitsEnd(s, from)
      n == DigitsValue(SubSeq(s, from, to - 1), 0)
  IN IF to = from \/ (to - from > 1 /\ s[from] = "0") THEN JFail
     ELSE JOk(Mk("num", IF neg THEN -n ELSE n), to)

\* A string literal at i (no escapes occur in the documents drawn).
JString(s, i) ==
  IF ~(i <= Len(s) /\ s[i] = "\"") THEN JFail
  ELSE LET q == QuoteEnd(s, i + 1)
       IN IF q = 0 THEN JFail
          ELSE JOk(Mk("str", SubSeq(s, i + 1, q - 1)), q + 1)

RECURSIVE JValue(_, _)
RECURSIVE JElems(_, _, _)
RECURSIVE JMembers(_, _, _)

\* The elements of an array after "[" or ",", up to "]".
JElems(s, i, acc) ==
  LET e == JValue(s, i) IN
  IF ~e.ok THEN JFail
  ELSE LET j == SkipWS(s, e.next)
           all == Append(acc, e.ast)
       IN IF j > Len(s) THEN JFail
          ELSE IF s[j] = "]" THEN JOk(Mk("arr", all), j + 1)
          ELSE IF s[j] = "," THEN JElems(s, j + 1, all)
          ELSE JFail

\* The members of an object after "{" or ",", up to "}".
JMembers(s, i, acc) ==
  LET k == JString(s, SkipWS(s, i)) IN
  IF ~k.ok THEN JFail
  ELSE LET c == SkipWS(s, k.next) IN
       IF ~(c <= Len(s) /\ s[c] = ":") THEN JFail
       ELSE LET e == JValue(s, c + 1) IN
            IF ~e.ok THEN JFail
            ELSE LET j == SkipWS(s, e.next)
                     all == Append(acc, <<Payload(k.ast), e.ast>>)
                 IN IF j > Len(s) THEN JFail
                    ELSE IF s[j] = "}" THEN JOk(Mk("obj", all), j + 1)
                    ELSE IF s[j] = "," THEN JMembers(s, j + 1, all)
                    ELSE JFail

\* One JSON value at i, after optional white space.
JValue(s, i) ==
  LET b == SkipWS(s, i) IN
  IF b > Len(s) THEN JFail
  ELSE IF HasAt(s, b, JSONNull) THEN JOk(Mk("null", 0), b + 4)
  ELSE IF HasAt(s, b, <<"t", "r", "u", "e">>) THEN JOk(Mk("bool", TRUE), b + 4)
  ELSE IF HasAt(s, b, <<"f", "a", "l", "s", "e">>)
    THEN JOk(Mk("bool", FALSE), b + 5)
  ELSE IF s[b] = "\"" THEN JString(s, b)
  ELSE IF s[b] = "-" \/ IsDigit(s[b]) THEN JNumber(s, b)
  ELSE IF s[b] = "["
    THEN LET j == SkipWS(s, b + 1) IN
         IF j <= Len(s) /\ s[j] = "]" THEN JOk(Mk("arr", <<>>), j + 1)
         ELSE JElems(s, b + 1, <<>>)
  ELSE IF s[b] = "{"
    THEN LET j == SkipWS(s, b + 1) IN
         IF j <= Len(s) /\ s[j] = "}" THEN JOk(Mk("obj", <<>>), j + 1)
         ELSE JMembers(s, b + 1, <<>>)
  ELSE JFail

\* json's checkValid and scan: the whole input is one value.
JParse(s) ==
  LET r == JValue(s, 1) IN
  IF r.ok /\ SkipWS(s, r.next) = Len(s) + 1 THEN r ELSE JFail

\* The instantiations whose JSON form is modelled.
JSONTypes == {"string", "int", "uint8", "bool", "ints", "map", "ptrInt",
              "ptrStruct", "struct"}

JStored(err, val) == [err |-> err, val |-> val]

\* The first error is the one json.Unmarshal reports (d.saveError).
FirstErr(a, b) == IF a # "" THEN a ELSE b

\* literalStore for the scalar kinds: a literal of the wrong kind is an
\* UnmarshalTypeError and leaves the destination as it was; null leaves a
\* scalar as it was.
JStoreScalar(t, old, ast) ==
  LET k == TypeOf(ast)
      n == Payload(ast)
  IN CASE k = "null" -> JStored("", old)
       [] t = "string" /\ k = "str" -> JStored("", Mk(t, n))
       [] t = "int" /\ k = "num" -> JStored("", Mk(t, n))
       [] t = "uint8" /\ k = "num" /\ n >= 0 /\ n < 256 -> JStored("", Mk(t, n))
       [] t = "bool" /\ k = "bool" -> JStored("", Mk(t, n))
       [] OTHER -> JStored("json: cannot unmarshal", old)

\* testStruct{ID int}: the member "ID" is decoded into the field, other
\* members are skipped, a field without a member keeps its value.
RECURSIVE JStoreFields(_, _, _)
JStoreFields(id, members, err) ==
  IF members = <<>> THEN JStored(err, id)
  ELSE LET m == Head(members) IN
       IF m[1] = <<"I", "D">>
         THEN LET r == JStoreScalar("int", Mk("int", id), m[2])
              IN JStoreFields(Payload(r.val), Tail(members),
                              FirstErr(err, r.err))
         ELSE JStoreFields(id, Tail(members), err)

JStoreStruct(id, ast) ==
  IF TypeOf(ast) = "null" THEN JStored("", id)
  ELSE IF TypeOf(ast) = "obj" THEN JStoreFields(id, Payload(ast), "")
  ELSE JStored("json: cannot unmarshal", id)

\* m with key k bound to n.
MapPut(m, k, n) == {kv \in m : kv[1] # k} \cup {<<k, n>>}

\* map[string]int: every member is decoded into a fresh zero element and
\* written to the map, also when its value was of the wrong kind; the keys
\* the map already held stay.
RECURSIVE JStoreMembers(_, _, _)
JStoreMembers(m, members, err) ==
  IF members = <<>> THEN JStored(err, m)
  ELSE LET kv == Head(members)
           r == JStoreScalar("int", Mk("int", 0), kv[2])
       IN JStoreMembers(MapPut(m, kv[1], Payload(r.val)), Tail(members),
                        FirstErr(err, r.err))

\* []int: element i is decoded into the slot i of the slice's backing
\* array, which holds what the old slice held there.
RECURSIVE JStoreElems(_, _, _, _)
JStoreElems(old, elems, acc, err) ==
  IF elems = <<>> THEN JStored(err, acc)
  ELSE LET i == Len(acc) + 1
           slot == IF i <= Len(old) THEN old[i] ELSE 0
           r == JStoreScalar("int", Mk("int", slot), Head(elems))
       IN JStoreElems(old, Tail(elems), Append(acc, Payload(r.val)),
                      FirstErr(err, r.err))

\* decodeState.value into a destination of type t holding old.
JStore(t, old, ast) ==
  LET k == TypeOf(ast)
      o == Payload(old)
  IN CASE t \in {"string", "int", "uint8", "bool"} ->
            JStoreScalar(t, old, ast)
       [] t = "struct" ->
            LET r == JStoreStruct(o, ast) IN JStored(r.err, Mk(t, r.val))
       [] t \in {"ints", "map", "ptrInt", "ptrStruct"} /\ k = "null" ->
            JStored("", Zero(t))
       [] t = "ints" ->
            IF k = "arr"
              THEN LET r == JStoreElems(o.e, Payload(ast), <<>>, "")
                   IN JStored(r.err, Mk(t, [nil |-> FALSE, e |-> r.val]))
              ELSE JStored("json: cannot unmarshal", old)
       [] t = "map" ->
            IF k = "obj"
              THEN LET r == JStoreMembers(o.m, Payload(ast), "")
                   IN JStored(r.err, Mk(t, [nil |-> FALSE, m |-> r.val]))
              ELSE JStored("json: cannot unmarshal", old)
       [] t = "ptrInt" ->
            \* indirect() allocates a nil pointer before the literal is stored
            LET r == JStoreScalar("int", Mk("int", o.p), ast)
            IN JStored(r.err, Mk(t, [nil |-> FALSE, p |-> Payload(r.val)]))
       [] t = "ptrStruct" ->
            LET r == JStoreStruct(o.p, ast)
            IN JStored(r.err, Mk(t, [nil |-> FALSE, p |-> r.val]))

\* json.Unmarshal(data, &old): a syntax error is found before anything is
\* stored.
JsonUnmarshal(data, old) ==
  LET p == JParse(data) IN
  IF ~p.ok THEN JStored("json: syntax error", old)
  ELSE JStore(TypeOf(old), old, p.ast)

RECURSIVE JoinInts(_)
JoinInts(e) ==
  IF e = <<>> THEN <<>>
  ELSE IF Len(e) = 1 THEN FormatInt(e[1])
  ELSE FormatInt(e[1]) \o <<",">> \o JoinInts(Tail(e))

Quoted(str) == <<"\"">> \o str \o <<"\"">>

RECURSIVE JoinMembers(_, _, _)
\* The members of m under the keys ks, in that order.
JoinMembers(m, ks, first) ==
  IF ks = <<>> THEN <<>>
  ELSE LET k == Head(ks)
           has == \E kv \in m : kv[1] = k
           n == (CHOOSE kv \in m : kv[1] = k)[2]
       IN IF has
            THEN (IF first THEN <<>> ELSE <<",">>) \o Quoted(k) \o <<":">>
                 \o FormatInt(n) \o JoinMembers(m, Tail(ks), FALSE)
            ELSE JoinMembers(m, Tail(ks), first)

JStructText(id) == <<"{">> \o Quoted(<<"I", "D">>) \o <<":">> \o FormatInt(id)
                   \o <<"}">>

\* json.Marshal(x), for x of a type in JSONTypes.
JsonMarshal(x) ==
  LET t == TypeOf(x)
      o == Payload(x)
  IN CASE t = "string" -> Quoted(o)
       [] t = "int" -> FormatInt(o)
       [] t = "uint8" -> FormatNat(o)
       [] t = "bool" -> FormatBool(o)
       [] t = "ints" ->
            IF o.nil THEN JSONNull ELSE <<"[">> \o JoinInts(o.e) \o <<"]">>
       [] t = "map" ->
            IF o.nil THEN JSONNull
            ELSE <<"{">> \o JoinMembers(o.m, Keys, TRUE) \o <<"}">>
       [] t = "ptrInt" -> IF o.nil THEN JSONNull ELSE FormatInt(o.p)
       [] t = "ptrStruct" -> IF o.nil THEN JSONNull ELSE JStructText(o.p)
       [] t = "struct" -> JStructText(o)

\* A []byte value.
Bytes(e) == Mk("bytes", [nil |-> FALSE, e |-> e])
NilBytes == Mk("bytes", [nil |-> TRUE, e |-> <<>>])

\* ------------------------------------------------------ time.Time and net.IP
\* The instants modelled: 0 is the zero time (year 1), 1 is 2000-01-01.
TimeYear(n) == IF n = 0 THEN <<"0", "0", "0", "1">> ELSE <<"2", "0", "0", "0">>

\* Time.Format(time.RFC3339Nano), at midnight UTC on 1 January.
TimeText(n) ==
  TimeYear(n) \o <<"-", "0", "1", "-", "0", "1", "T", "0", "0", ":", "0", "0",
                   ":", "0", "0", "Z">>

\* net.IP.String for an IPv4 address of one-digit parts.
IPText(e) ==
  <<DigitChars[e[1] + 1], ".", DigitChars[e[2] + 1], ".",
    DigitChars[e[3] + 1], ".", DigitChars[e[4] + 1]>>

\* net.ParseIP for the same addresses.
ParseIP(s) ==
  IF /\ Len(s) = 7
     /\ \A i \in {1, 3, 5, 7} : IsDigit(s[i])
     /\ \A i \in {2, 4, 6} : s[i] = "."
    THEN [ok |-> TRUE,
          e |-> <<DigitVal(s[1]), DigitVal(s[3]), DigitVal(s[5]),
                  DigitVal(s[7])>>]
    ELSE [ok |-> FALSE, e |-> <<>>]

\* func (ip IP) MarshalText() ([]byte, error)
IPMarshalText(x) ==
  IF Len(Payload(x).e) = 0 THEN [err |-> "", val |-> Bytes(<<>>)]
  ELSE [err |-> "", val |-> Bytes(IPText(Payload(x).e))]

\* func (ip *IP) UnmarshalText(text []byte) error
IPUnmarshalText(old, text) ==
  IF Len(text) = 0 THEN [err |-> "", val |-> Zero("ip")]
  ELSE LET r == ParseIP(text) IN
       IF r.ok THEN [err |-> "", val |-> Mk("ip", [nil |-> FALSE, e |-> r.e])]
       ELSE [err |-> "invalid IP address", val |-> old]

\* ------------------------------------------------------ opt.ConvertAssign
\* float64 values are counted in halves: 3 is 1.5.
\* strconv.FormatFloat(f, 'g', -1, 64)
FormatHalf(h) ==
  IF h % 2 = 0 THEN FormatInt(h \div 2)
  ELSE FormatInt(h \div 2) \o <<".", "5">>

\* strconv.ParseFloat(s, 64), for numbers of whole halves.
ParseHalf(s) ==
  LET n == Len(s)
      frac == n > 2 /\ SubSeq(s, n - 1, n) = <<".", "5">>
      whole == ParseInt(IF frac THEN SubSeq(s, 1, n - 2) ELSE s)
  IN IF ~whole.ok THEN [ok |-> FALSE, n |-> 0]
     ELSE [ok |-> TRUE, n |-> 2 * whole.n + (IF frac THEN 1 ELSE 0)]

\* The instantiations whose text form is modelled (a uint64 is not
\* formatted in decimal here).
TextTypes == Types \ {"uint64"}

\* asString(src)
AsString(src) ==
  LET t == TypeOf(src)
      o == Payload(src)
  IN CASE t = "string" -> o
       [] t = "bytes" -> o.e
       [] t = "int" -> FormatInt(o)
       [] t = "uint8" -> FormatNat(o)
       [] t = "float64" -> FormatHalf(o)
       [] t = "bool" -> FormatBool(o)

\* driver.Bool.ConvertValue(src)
ConvertBool(src) ==
  LET t == TypeOf(src)
      o == Payload(src)
  IN CASE t = "bool" -> [ok |-> TRUE, b |-> o]
       [] t = "string" -> ParseBool(o)
       [] t = "bytes" -> ParseBool(o.e)
       [] t \in {"int", "uint8"} /\ o \in {0, 1} -> [ok |-> TRUE, b |-> o = 1]
       [] OTHER -> [ok |-> FALSE, b |-> FALSE]

Converted(val) == [err |-> "", val |-> val]
Unconverted(err, old) == [err |-> err, val |-> old]

\* The kinds asString formats.
Stringable == {"string", "bytes", "int", "uint8", "float64", "bool"}

\* The conversions through a string: strconv parses asString(src).
ConvertParsed(t, old, src) ==
  IF TypeOf(src) \notin Stringable
    THEN Unconverted("unsupported Scan", old)
  ELSE LET str == AsString(src) IN
    CASE t = "int" ->
           LET r == ParseInt(str) IN
           IF r.ok THEN Converted(Mk(t, r.n))
           ELSE Unconverted("converting driver.Value type", old)
      [] t = "uint8" ->
           LET r == ParseUint(str, 8) IN
           IF r.ok THEN Converted(Mk(t, r.n))
           ELSE Unconverted("converting driver.Value type", old)
      [] t = "uint64" ->
           LET r == ParseUint(str, 16) IN
           IF r.ok THEN Converted(Mk(t, <<0, 0, 0, r.n>>))
           ELSE Unconverted("converting driver.Value type", old)
      [] t = "float64" ->
           LET r == ParseHalf(str) IN
           IF r.ok THEN Converted(Mk(t, r.n))
           ELSE Unconverted("converting driver.Value type", old)

\* opt.ConvertAssign(&dest, src) for a destination of a type that is no
\* pointer, holding old: what is left in dest, and the error.
ConvertDirect(t, old, src) ==
  LET st == TypeOf(src)
      o == Payload(src)
  IN CASE st = t -> Converted(src)
       [] st = "nil" ->
            IF t = "bytes" THEN Converted(Zero(t))
            ELSE Unconverted("converting NULL is unsupported", old)
       [] t = "string" ->
            IF st = "time" THEN Converted(Mk(t, TimeText(o)))
            ELSE IF st \in Stringable THEN Converted(Mk(t, AsString(src)))
            ELSE Unconverted("unsupported Scan", old)
       [] t = "bytes" ->
            IF st \in Stringable THEN Converted(Bytes(AsString(src)))
            ELSE Unconverted("unsupported Scan", old)
       [] t = "bool" ->
            LET r == ConvertBool(src) IN
            IF r.ok THEN Converted(Mk(t, r.b))
            ELSE Unconverted("couldn't convert into type bool", old)
       [] t \in {"int", "uint8", "uint64", "float64"} ->
            ConvertParsed(t, old, src)
       [] OTHER -> Unconverted("unsupported Scan", old)

\* opt.ConvertAssign(&dest, src) for dest of type t holding old. A pointer
\* destination is pointed at a fresh zero value, which is then assigned.
ConvertAssign(t, old, src) ==
  CASE TypeOf(src) = t -> Converted(src)
    [] t \in {"ptrInt", "ptrStruct"} ->
         IF TypeOf(src) = "nil" THEN Converted(Zero(t))
         ELSE LET et == IF t = "ptrInt" THEN "int" ELSE "struct"
                  r == ConvertDirect(et, Zero(et), src)
              IN [err |-> r.err,
                  val |-> Mk(t, [nil |-> FALSE, p |-> Payload(r.val)])]
    [] OTHER -> ConvertDirect(t, old, src)

\* ------------------------------------------------------------------ reflect
\* reflect.TypeOf(x).Kind() for x of type t.
Kind(t) ==
  CASE t = "string" -> "String"
    [] t = "int" -> "Int"
    [] t = "uint8" -> "Uint8"
    [] t = "uint64" -> "Uint64"
    [] t = "bool" -> "Bool"
    [] t = "float64" -> "Float64"
    [] t \in {"bytes", "ints", "ip"} -> "Slice"
    [] t = "map" -> "Map"
    [] t \in {"ptrInt", "ptrStruct"} -> "Ptr"
    [] t \in {"struct", "time", "valuer"} -> "Struct"

\* The kind reached by typ = typ.Elem() while typ.Kind() == reflect.Ptr.
StrippedKind(t) ==
  CASE t = "ptrInt" -> "Int"
    [] t = "ptrStruct" -> "Struct"
    [] OTHER -> Kind(t)

\* reflect.TypeOf(x).Elem().Kind() for a slice type t.
ElemKind(t) == IF t \in {"bytes", "ip"} THEN "Uint8" ELSE "Int"

\* The kinds reflect.Value.IsNil accepts; on any other it panics.
Nilable == {"Chan", "Func", "Interface", "Map", "Ptr", "Slice",
            "UnsafePointer"}

\* reflect.ValueOf(x).IsNil() for x of a kind in Nilable.
IsNilValue(x) == Payload(x).nil

\* The types that implement driver.Valuer, encoding.TextMarshaler, and whose
\* pointer implements encoding.TextUnmarshaler.
DriverValuers == {"valuer"}
TextMarshalers == {"ip", "time"}
TextUnmarshalers == {"ip", "time"}

\* An int64 is its two's complement bit pattern in four 16-bit limbs.
Int64(limbs) == Mk("int64", limbs)

\* reflect.Value.Int() of a signed integer n.
Int64Of(n) ==
  IF n >= 0 THEN Int64(<<0, 0, n \div Limb, n % Limb>>)
  ELSE Int64(<<Limb - 1, Limb - 1, Limb - 1 - ((-n - 1) \div Limb),
               Limb - 1 - ((-n - 1) % Limb)>>)

\* refVal.Convert(globaldata.Int64Type).Int() of an unsigned integer: the
\* same bits, zero-extended to 64.
ConvertToInt64(x) ==
  IF TypeOf(x) = "uint8" THEN Int64(<<0, 0, 0, Payload(x)>>)
  ELSE Int64(Payload(x))

\* func (valuerImplementation) Value() (driver.Value, error)
ValuerValue(x) == [err |-> "", val |-> Int64Of(1)]

\* func (t Time) MarshalText() / func (t *Time) UnmarshalText
TimeMarshalText(x) == [err |-> "", val |-> Bytes(TimeText(Payload(x)))]

TimeUnmarshalText(old, text) ==
  IF \E n \in {0, 1} : TimeText(n) = text
    THEN [err |-> "", val |-> Mk("time", CHOOSE n \in {0, 1} : TimeText(n) = text)]
    ELSE [err |-> "parsing time", val |-> old]

\* len(b) for a []byte b.
ByteLen(b) == Len(Payload(b).e)

\* --------------------------------------------------------------- JSON adapter
\* UnmarshalJSON that returns on empty input without touching the state.
UnmarshalJSON_EmptyKeeps(c, data) ==
  LET r == Result("UnmarshalJSON", c, data) IN
  IF ByteLen(data) = 0
    THEN Outcome(c, r)
  ELSE IF Payload(data).e = JSONNull
    THEN Outcome(c, [r EXCEPT !.err = "cannot unmarshal 'null' value into omit value"])
  ELSE LET d == JsonUnmarshal(Payload(data).e, c.value) IN
       IF d.err # ""
         THEN Outcome([c EXCEPT !.value = d.val], [r EXCEPT !.err = d.err])
         ELSE Outcome(Val(d.val, StateSet), r)

\* func (v *Val[T]) UnmarshalJSON(data []byte) error      (src/omit/omit.go)
UnmarshalJSON_omit(c, data) ==
  LET r == Result("UnmarshalJSON", c, data) IN
  IF ByteLen(data) = 0
    THEN Outcome([c EXCEPT !.state = StateUnset], r)
  ELSE IF Payload(data).e = JSONNull
    THEN Outcome(c, [r EXCEPT !.err = "cannot unmarshal 'null' value into omit value"])
  ELSE LET d == JsonUnmarshal(Payload(data).e, c.value) IN
       IF d.err # ""
         THEN Outcome([c EXCEPT !.value = d.val], [r EXCEPT !.err = d.err])
         ELSE Outcome(Val(d.val, StateSet), r)

\* UnmarshalJSON that takes the literal null for the absent form.
UnmarshalJSON_NullUnsets(c, data) ==
  LET r == Result("UnmarshalJSON", c, data) IN
  IF ByteLen(data) = 0 \/ Payload(data).e = JSONNull
    THEN Outcome(Val(Zero(TypeOf(c.value)), StateUnset), r)
  ELSE LET d == JsonUnmarshal(Payload(data).e, c.value) IN
       IF d.err # ""
         THEN Outcome([c EXCEPT !.value = d.val], [r EXCEPT !.err = d.err])
         ELSE Outcome(Val(d.val, StateSet), r)

\* func (v *Val[T]) UnmarshalJSON(data []byte) error      (part_000)
UnmarshalJSON_part(c, data) ==
  LET r == Result("UnmarshalJSON", c, data) IN
  IF ByteLen(data) = 0
    THEN Outcome(Val(Zero(TypeOf(c.value)), StateUnset), r)
  ELSE IF Payload(data).e = JSONNull
    THEN Outcome(c, [r EXCEPT !.err = "cannot unmarshal 'null' value into omit value"])
  ELSE LET d == JsonUnmarshal(Payload(data).e, c.value) IN
       IF d.err # ""
         THEN Outcome([c EXCEPT !.value = d.val], [r EXCEPT !.err = d.err])
         ELSE Outcome(Val(d.val, StateSet), r)

\* func (v Val[T]) MarshalJSON() ([]byte, error)
MarshalJSON(c) ==
  LET r == Result("MarshalJSON", c, NoVal) IN
  IF c.state = StateSet
    THEN Outcome(c, [r EXCEPT !.val = Bytes(JsonMarshal(c.value))])
    ELSE Outcome(c, [r EXCEPT !.val = Bytes(JSONNull)])

\* func (v Val[T]) MarshalJSONIsZero() bool                (part_000 only)
MarshalJSONIsZero(c) ==
  LET r == Result("MarshalJSONIsZero", c, NoVal)
      t == TypeOf(c.value)
  IN IF c.state = StateUnset
       THEN Outcome(c, [r EXCEPT !.val = Mk("bool", TRUE)])
     ELSE IF StrippedKind(t) \in {"Map", "Struct", "Slice"}
       THEN IF Kind(t) \notin Nilable
              THEN Outcome(c, [r EXCEPT !.panicked = TRUE])
            ELSE IF IsNilValue(c.value)
              THEN Outcome(c, [r EXCEPT !.val = Mk("bool", TRUE)])
            ELSE Outcome(c, [r EXCEPT !.val = Mk("bool", FALSE)])
     ELSE Outcome(c, [r EXCEPT !.val = Mk("bool", FALSE)])

\* --------------------------------------------------------------- text adapter
\* T's own encoding.TextMarshaler.
NativeMarshalText(x) ==
  IF TypeOf(x) = "ip" THEN IPMarshalText(x) ELSE TimeMarshalText(x)

\* T's own encoding.TextUnmarshaler.
NativeUnmarshalText(old, text) ==
  IF TypeOf(old) = "ip" THEN IPUnmarshalText(old, text)
  ELSE TimeUnmarshalText(old, text)

\* var text string; opt.ConvertAssign(&text, v.value); []byte(text)
MarshalTextConverted(c, r) ==
  LET a == ConvertAssign("string", Mk("string", <<>>), c.value) IN
  IF a.err # ""
    THEN Outcome(c, [r EXCEPT !.val = NilBytes, !.err = a.err])
    ELSE Outcome(c, [r EXCEPT !.val = Bytes(Payload(a.val))])

\* func (v Val[T]) MarshalText() ([]byte, error)           (src/omit/omit.go)
MarshalText_omit(c) ==
  LET r == Result("MarshalText", c, NoVal) IN
  IF c.state # StateSet
    THEN Outcome(c, [r EXCEPT !.val = NilBytes])
    ELSE MarshalTextConverted(c, r)

\* func (v Val[T]) MarshalText() ([]byte, error)           (part_000)
MarshalText_part(c) ==
  LET r == Result("MarshalText", c, NoVal) IN
  IF c.state # StateSet
    THEN Outcome(c, [r EXCEPT !.val = NilBytes])
  ELSE IF TypeOf(c.value) \in TextMarshalers
    THEN LET n == NativeMarshalText(c.value)
         IN Outcome(c, [r EXCEPT !.val = n.val, !.err = n.err])
  ELSE MarshalTextConverted(c, r)

\* The fallback decode that forgets v.state = StateSet.
UnmarshalTextConverted_NoSet(c, r, text) ==
  LET a == ConvertAssign(TypeOf(c.value), c.value,
                         Mk("string", Payload(text).e))
  IN IF a.err # ""
       THEN Outcome([c EXCEPT !.value = a.val], [r EXCEPT !.err = a.err])
       ELSE Outcome([c EXCEPT !.value = a.val], r)

\* opt.ConvertAssign(&v.value, string(text)), then v.state = StateSet
UnmarshalTextConverted(c, r, text) ==
  LET a == ConvertAssign(TypeOf(c.value), c.value,
                         Mk("string", Payload(text).e))
  IN IF a.err # ""
       THEN Outcome([c EXCEPT !.value = a.val], [r EXCEPT !.err = a.err])
       ELSE Outcome(Val(a.val, StateSet), r)

\* func (v *Val[T]) UnmarshalText(text []byte) error       (src/omit/omit.go)
UnmarshalText_omit(c, text) ==
  LET r == Result("UnmarshalText", c, text) IN
  IF ByteLen(text) = 0
    THEN Outcome([c EXCEPT !.state = StateUnset], r)
    ELSE UnmarshalTextConverted(c, r, text)

\* func (v *Val[T]) UnmarshalText(text []byte) error       (part_000)
UnmarshalText_part(c, text) ==
  LET r == Result("UnmarshalText", c, text) IN
  IF ByteLen(text) = 0
    THEN Outcome(Val(Zero(TypeOf(c.value)), StateUnset), r)
  ELSE IF TypeOf(c.value) \in TextUnmarshalers
    THEN LET n == NativeUnmarshalText(c.value, Payload(text).e) IN
         IF n.err # ""
           THEN Outcome([c EXCEPT !.value = n.val], [r EXCEPT !.err = n.err])
           ELSE Outcome(Val(n.val, StateSet), r)
  ELSE UnmarshalTextConverted(c, r, text)

\* ---------------------------------------------------------- database adapters
\* Scan that takes a source null for the absent form.
Scan_NullUnsets(c, value) ==
  LET r == Result("Scan", c, value) IN
  IF value = NoVal
    THEN Outcome(Val(Zero(TypeOf(c.value)), StateUnset), r)
    ELSE LET a == ConvertAssign(TypeOf(c.value), c.value, value)
         IN Outcome(Val(a.val, StateSet), [r EXCEPT !.err = a.err])

\* func (v *Val[T]) Scan(value any) error
Scan(c, value) ==
  LET r == Result("Scan", c, value) IN
  IF value = NoVal
    THEN Outcome(c, [r EXCEPT !.err = "cannot store 'null' value in omit value"])
    ELSE LET a == ConvertAssign(TypeOf(c.value), c.value, value)
         IN Outcome(Val(a.val, StateSet), [r EXCEPT !.err = a.err])

\* func (v Val[T]) Value() (driver.Value, error)           (src/omit/omit.go)
Value_omit(c) ==
  LET r == Result("Value", c, NoVal)
      t == TypeOf(c.value)
      k == Kind(t)
      fail == Outcome(c, [r EXCEPT !.err = "no implementation for driver.Valuer"])
      held == Outcome(c, [r EXCEPT !.val = c.value])
  IN IF c.state # StateSet THEN Outcome(c, r)
     ELSE IF t \in DriverValuers
       THEN LET n == ValuerValue(c.value)
            IN Outcome(c, [r EXCEPT !.val = n.val, !.err = n.err])
     ELSE CASE k = "Int" ->
                 Outcome(c, [r EXCEPT !.val = Int64Of(Payload(c.value))])
            [] k \in {"Uint8", "Uint64"} ->
                 Outcome(c, [r EXCEPT !.val = ConvertToInt64(c.value)])
            [] k = "Bool" -> held
            [] k = "String" -> held
            [] k = "Slice" -> IF ElemKind(t) = "Uint8" THEN held ELSE fail
            [] k = "Struct" -> IF t = "time" THEN held ELSE fail
            [] OTHER -> fail

\* func (v Val[T]) Value() (driver.Value, error)           (part_000)
Value_part(c) ==
  LET r == Result("Value", c, NoVal) IN
  IF c.state # StateSet THEN Outcome(c, r)
  ELSE IF TypeOf(c.value) \in DriverValuers
    THEN LET n == ValuerValue(c.value)
         IN Outcome(c, [r EXCEPT !.val = n.val, !.err = n.err])
  ELSE Outcome(c, [r EXCEPT !.val = c.value])

\* The method of the source in use.
UnmarshalJSON(c, data) ==
  IF impl = "omit" THEN UnmarshalJSON_omit(c, data)
  ELSE UnmarshalJSON_part(c, data)

MarshalText(c) ==
  IF impl = "omit" THEN MarshalText_omit(c) ELSE MarshalText_part(c)

UnmarshalText(c, text) ==
  IF impl = "omit" THEN UnmarshalText_omit(c, text)
  ELSE UnmarshalText_part(c, text)

Value(c) == IF impl = "omit" THEN Value_omit(c) ELSE Value_part(c)

\* ------------------------------------------------------------------- inputs
\* The JSON documents handed to UnmarshalJSON.
JSONDocs ==
  {<<>>, JSONNull, <<" ">> \o JSONNull, <<"{">>,
   Quoted(<<"h", "i">>), FormatInt(5), FormatInt(-1), FormatInt(MaxInt),
   FormatBool(TRUE),
   <<"[", "]">>, <<"[", "1", ",", "2", "]">>, <<"[", "n", "u", "l", "l", "]">>,
   <<"{", "}">>,
   <<"{">> \o Quoted(<<"a">>) \o <<":", "1", "}">>,
   <<"{">> \o Quoted(<<"b">>) \o <<":", "2", "}">>,
   <<"{">> \o Quoted(<<"a">>) \o <<":", "1", ",">> \o Quoted(<<"b">>) \o <<":">>
     \o Quoted(<<"x">>) \o <<"}">>,
   JStructText(7)}

\* The texts handed to UnmarshalText.
TextDocs ==
  {<<>>, <<"h", "i">>, FormatInt(5), FormatInt(-1), FormatInt(300),
   FormatBool(TRUE), FormatHalf(3), IPText(<<1, 1, 1, 1>>), TimeText(1)}

\* UnmarshalJSON is handed nil, a document, or the encoding of a value.
JSONInputs ==
  {NilBytes} \cup {Bytes(d) : d \in JSONDocs} \cup
  (IF T \in JSONTypes THEN {MarshalJSON(From(x)).r.val : x \in Values(T)}
   ELSE {})

\* UnmarshalText is handed nil, a text, or the encoding of a value.
TextInputs ==
  {NilBytes} \cup {Bytes(d) : d \in TextDocs} \cup
  (IF T \in TextTypes THEN {MarshalText(From(x)).r.val : x \in Values(T)}
   ELSE {})

\* The driver values handed to Scan.
ScanInputs ==
  {NoVal, Mk("string", <<"h", "i">>), Mk("string", <<"5">>), Mk("int", 5),
   Mk("bool", TRUE)}

\* ------------------------------------------------------------ state machine
\* var v Val[T]: the container under test, unset by default construction.
Init ==
  /\ impl \in Impls
  /\ T \in Types
  /\ v = ZeroVal(T)
  /\ ret = Result("init", ZeroVal(T), NoVal)
  /\ paired = FALSE
  /\ w = ZeroVal(T)
  /\ retw = Result("init", ZeroVal(T), NoVal)

\* A call: the container under test, and the second container once there is
\* one, take the same call with the same arguments.
Call(ov, ow) ==
  /\ v' = ov.c
  /\ ret' = ov.r
  /\ IF paired THEN w' = ow.c /\ retw' = ow.r ELSE UNCHANGED <<w, retw>>
  /\ UNCHANGED <<impl, T, paired>>

\* val = <constructor>(...): both containers are replaced by the new one.
Assign(op, c, arg) ==
  Call(Outcome(c, Result(op, v, arg)), Outcome(c, Result(op, w, arg)))

\* var w Val[T]: a second, freshly constructed container beside an unset v.
Pair ==
  /\ ~paired
  /\ v.state = StateUnset
  /\ paired' = TRUE
  /\ w' = ZeroVal(T)
  /\ retw' = ret
  /\ UNCHANGED <<impl, T, v, ret>>

DoNew == impl = "omit" /\ Assign("New", New(T), NoVal)

DoFrom == \E x \in Values(T) : Assign("From", From(x), x)

DoFromPtr == \E p \in Pointers(T) : Assign("FromPtr", FromPtr(T, p), p)

DoFromCond ==
  /\ impl = "part_000"
  /\ \E x \in Values(T), ok \in BOOLEAN :
       Assign("FromCond", FromCond(x, ok), Mk("cond", <<x, ok>>))

DoSet == \E x \in Values(T) : Call(Set(v, x), Set(w, x))

DoUnset == Call(Unset(v), Unset(w))

DoSetPtr ==
  /\ impl = "omit"
  /\ \E p \in Pointers(T) : Call(SetPtr(v, p), SetPtr(w, p))

DoGet == Call(Get(v), Get(w))

DoGetOr == \E f \in Values(T) : Call(GetOr(v, f), GetOr(w, f))

DoGetOrZero == impl = "part_000" /\ Call(GetOrZero(v), GetOrZero(w))

DoMustGet == Call(MustGet(v), MustGet(w))

DoMap ==
  \E f \in Fns \ {"isZero"} :
    /\ FnDefined(f, v.value)
    /\ Call(Map(v, f), Map(w, f))

DoMapFree ==
  \E f \in Fns :
    /\ FnDefined(f, v.value)
    /\ Call(MapFree(v, f), MapFree(w, f))

DoPtr == impl = "omit" /\ Call(Ptr(v), Ptr(w))

\* *p = x through the pointer the last call to Ptr returned.
DoStore ==
  /\ ret.ptr # "nil"
  /\ \E x \in Values(T) :
       Call(Store(v, ret, x),
            IF retw.ptr # "nil" THEN Store(w, retw, x) ELSE Outcome(w, retw))

\* Whether json.Unmarshal / json.Marshal is reached with a modelled type.
DecodesJSON(data) ==
  (ByteLen(data) # 0 /\ Payload(data).e # JSONNull) => T \in JSONTypes

EncodesJSON(c) == c.state = StateSet => T \in JSONTypes

EncodesText(c) == c.state = StateSet => T \in TextTypes

DoUnmarshalJSON ==
  \E data \in JSONInputs :
    /\ DecodesJSON(data)
    /\ Call(UnmarshalJSON(v, data), UnmarshalJSON(w, data))

DoMarshalJSON ==
  /\ EncodesJSON(v)
  /\ paired => EncodesJSON(w)
  /\ Call(MarshalJSON(v), MarshalJSON(w))

DoMarshalJSONIsZero ==
  /\ impl = "part_000"
  /\ Call(MarshalJSONIsZero(v), MarshalJSONIsZero(w))

DoMarshalText ==
  /\ EncodesText(v)
  /\ paired => EncodesText(w)
  /\ Call(MarshalText(v), MarshalText(w))

DoUnmarshalText ==
  \E text \in TextInputs : Call(UnmarshalText(v, text), UnmarshalText(w, text))

DoScan == \E value \in ScanInputs : Call(Scan(v, value), Scan(w, value))

DoValue == Call(Value(v), Value(w))

Next ==
  \/ Pair
  \/ DoNew \/ DoFrom \/ DoFromPtr \/ DoFromCond
  \/ DoSet \/ DoUnset \/ DoSetPtr
  \/ DoGet \/ DoGetOr \/ DoGetOrZero \/ DoMustGet
  \/ DoMap \/ DoMapFree
  \/ DoPtr \/ DoStore
  \/ DoUnmarshalJSON \/ DoMarshalJSON \/ DoMarshalJSONIsZero
  \/ DoMarshalText \/ DoUnmarshalText
  \/ DoScan \/ DoValue

Spec == Init /\ [][Next]_vars

\* ================================================================== claims
\* What the accessors say of c: is it set, and to which value.
AccessorsSay(c, set, x) ==
  IF set
    THEN /\ Get(c).r.val = x /\ Get(c).r.ok
         /\ \A f \in Values(T) : GetOr(c, f).r.val = x
         /\ impl = "part_000" => GetOrZero(c).r.val = x
         /\ MustGet(c).r.val = x /\ ~MustGet(c).r.panicked
    ELSE /\ Get(c).r.val = Zero(T) /\ ~Get(c).r.ok
         /\ \A f \in Values(T) : GetOr(c, f).r.val = f
         /\ impl = "part_000" => GetOrZero(c).r.val = Zero(T)
         /\ MustGet(c).r.panicked /\ MustGet(c).r.val = NoVal

StoreOps == {"New", "From", "FromPtr", "FromCond", "Set", "SetPtr", "Unset"}
AccessorOps == {"Get", "GetOr", "GetOrZero", "MustGet"}

\* Whether the storing call r stored a value, and which.
StoredSet(r) ==
  CASE r.op \in {"From", "Set"} -> TRUE
    [] r.op \in {"FromPtr", "SetPtr"} -> ~Payload(r.arg).nil
    [] r.op = "FromCond" -> Payload(r.arg)[2]
    [] OTHER -> FALSE

StoredValue(r) ==
  CASE r.op \in {"From", "Set"} -> r.arg
    [] r.op \in {"FromPtr", "SetPtr"} -> Payload(r.arg).p
    [] r.op = "FromCond" -> Payload(r.arg)[1]
    [] OTHER -> NoVal

\* C1: after From, FromPtr, FromCond, Set, SetPtr or Unset the accessors
\* agree with the state: set, they return the value stored last; unset,
\* Get returns (zero, false), GetOr its fallback, GetOrZero zero and MustGet
\* panics returning nothing; an accessor call leaves the container as it
\* was; IsSet is the negation of IsUnset.
C1_AccessorsAgree ==
  /\ ret.op \in StoreOps => AccessorsSay(v, StoredSet(ret), StoredValue(ret))
  /\ ret.op \in AccessorOps => v = ret.pre /\ AccessorsSay(v, IsSet(v), v.value)
  /\ IsSet(v) = ~IsUnset(v)

\* SetPtr(nil) on a set container: unset, with the old value left behind.
C1_Witness ==
  /\ ret.op = "SetPtr" /\ Payload(ret.arg).nil
  /\ ret.pre.state = StateSet /\ v.value # Zero(T)

\* The values whose JSON form is the literal null.
EncodesAsNull(x) == MarshalJSON(From(x)).r.val = Bytes(JSONNull)

\* C2 (as amended): decoding MarshalJSON(From(x)) into a container whose
\* stored value is the zero value succeeds and leaves From(x), for every x
\* that MarshalJSON does not write as null; decoding the literal null (the
\* form of an unset container, and of a nil pointer, map or slice) returns
\* an error and leaves the container as it was.
C2_JSONRoundTrip ==
  (ret.op = "UnmarshalJSON" /\ T \in JSONTypes) =>
    /\ \A x \in Values(T) :
         (/\ ret.arg = MarshalJSON(From(x)).r.val
          /\ ~EncodesAsNull(x)
          /\ ret.pre.value = Zero(T))
         => (ret.err = "" /\ v = From(x))
    /\ ret.arg = MarshalJSON(ZeroVal(T)).r.val => (ret.err # "" /\ v = ret.pre)

\* A non-nil map decoded from its own encoding into a fresh container.
C2_Witness ==
  /\ ret.op = "UnmarshalJSON" /\ T = "map" /\ ret.err = ""
  /\ ret.pre = ZeroVal(T)
  /\ v.state = StateSet /\ Cardinality(Payload(v.value).m) = 2
  /\ ret.arg = MarshalJSON(v).r.val

\* C2 (as claimed): for every x, decoding MarshalJSON(From(x)) into a fresh
\* container succeeds and leaves From(x).
C2_Claimed ==
  (ret.op = "UnmarshalJSON" /\ T \in JSONTypes) =>
    \A x \in Values(T) :
      (ret.arg = MarshalJSON(From(x)).r.val /\ ret.pre = ZeroVal(T))
      => (ret.err = "" /\ v = From(x))

\* The text form of From(x), in part_000.
TextOf(x) == MarshalText_part(From(x)).r

\* C3 (as amended), for part_000: decoding MarshalText(From(x)) leaves
\* From(x) for every x whose text form is produced and is not empty; an
\* unset container encodes as the empty sequence; a set container whose
\* value has an empty text form (the empty string) encodes as the empty
\* sequence too, and decoding that leaves the container unset.
C3_TextRoundTrip ==
  impl = "part_000" =>
    /\ ret.op = "UnmarshalText" =>
         \A x \in Values(T) :
           (T \in TextTypes /\ TextOf(x).err = "" /\ ret.arg = TextOf(x).val)
           => (/\ ret.err = ""
               /\ IF ByteLen(ret.arg) # 0 THEN v = From(x)
                  ELSE v = ZeroVal(T))
    /\ (ret.op = "MarshalText" /\ ret.pre.state = StateUnset)
         => (ret.err = "" /\ ByteLen(ret.val) = 0)

\* A net.IP decoded by its own UnmarshalText from its own text form.
C3_Witness ==
  /\ impl = "part_000" /\ ret.op = "UnmarshalText" /\ T = "ip"
  /\ ByteLen(ret.arg) # 0 /\ v.state = StateSet
  /\ ret.arg = TextOf(v.value).val

\* C3 (as claimed): for every x, the empty string included, decoding
\* MarshalText(From(x)) leaves From(x), and the encoding is empty exactly
\* when the container is unset.
C3_Claimed ==
  impl = "part_000" =>
    /\ ret.op = "UnmarshalText" =>
         \A x \in Values(T) :
           (T \in TextTypes /\ TextOf(x).err = "" /\ ret.arg = TextOf(x).val)
           => v = From(x)
    /\ (ret.op = "MarshalText" /\ ret.err = "")
         => (ByteLen(ret.val) = 0 <=> ret.pre.state = StateUnset)

\* A nil pointer, a nil map or a nil slice.
NilPointerMapOrSlice(x) ==
  Kind(TypeOf(x)) \in {"Ptr", "Map", "Slice"} /\ Payload(x).nil

\* C4 (as claimed): MarshalJSONIsZero returns, without panicking, true
\* exactly when the container is unset or set to a nil pointer (to any
\* pointee type), a nil map or a nil slice; set to nil, IsSet is still true.
C4_Claimed ==
  ret.op = "MarshalJSONIsZero" =>
    /\ ~ret.panicked
    /\ ret.val = Mk("bool", \/ ret.pre.state = StateUnset
                            \/ NilPointerMapOrSlice(ret.pre.value))
    /\ (ret.pre.state = StateSet /\ NilPointerMapOrSlice(ret.pre.value))
         => IsSet(v)

\* C5: Scan of a null source value returns an error from any prior state
\* and leaves state and value as they were; Scan of a value that converts
\* to T returns no error and leaves the container set to the converted
\* value: a value of type T itself ("hi" into Val[string]) is held as it is.
C5_Scan ==
  ret.op = "Scan" =>
    /\ ret.arg = NoVal => (ret.err # "" /\ v = ret.pre)
    /\ (ret.arg # NoVal /\ ConvertAssign(T, ret.pre.value, ret.arg).err = "")
         => /\ ret.err = ""
            /\ v.state = StateSet
            /\ v.value = ConvertAssign(T, ret.pre.value, ret.arg).val
    /\ TypeOf(ret.arg) = T => (ret.err = "" /\ v = From(ret.arg))

\* A null scanned into a set container.
C5_Witness ==
  /\ ret.op = "Scan" /\ ret.arg = NoVal
  /\ ret.pre.state = StateSet /\ ret.pre.value # Zero(T)

\* C6: UnmarshalJSON and UnmarshalText of an empty byte sequence return no
\* error and leave the container unset, for every T and prior state: a
\* following Get returns (zero, false).
C6_EmptyInputUnsets ==
  (ret.op \in {"UnmarshalJSON", "UnmarshalText"} /\ ByteLen(ret.arg) = 0) =>
    /\ ret.err = ""
    /\ v.state = StateUnset
    /\ Get(v).r.val = Zero(T) /\ ~Get(v).r.ok

\* An empty input decoded into a set container.
C6_Witness ==
  /\ ret.op \in {"UnmarshalJSON", "UnmarshalText"} /\ ByteLen(ret.arg) = 0
  /\ ret.pre.state = StateSet /\ ret.pre.value # Zero(T)

\* C7: Map, the method and the function, on a set container holding x calls
\* fn once and returns a set container holding fn(x), so that the identity
\* gives back From(x); on an unset container it returns an unset container
\* and never calls fn; the receiver is not modified.
C7_Map ==
  ret.op \in {"Map", "MapFree"} =>
    /\ v = ret.pre
    /\ IF ret.pre.state = StateSet
         THEN /\ ret.calls = 1
              /\ ret.out = From(ApplyFn(Payload(ret.arg), ret.pre.value))
              /\ Payload(ret.arg) = "id" => ret.out = From(ret.pre.value)
         ELSE /\ ret.calls = 0
              /\ IsUnset(ret.out) /\ ~Get(ret.out).r.ok

\* The method Map with i + 1 on a set Val[int].
C7_Witness ==
  /\ ret.op = "Map" /\ Payload(ret.arg) = "inc"
  /\ ret.pre.state = StateSet
  /\ ret.out = From(Mk("int", Payload(v.value) + 1))

\* Whether the int64 s and the unsigned integer of bits u are the same
\* number: the same bits, and no sign bit.
SameNumber(s, u) == TypeOf(s) = "int64" /\ Payload(s) = u /\ u[1] < 2^15

\* The bits of an unsigned integer, zero-extended to 64.
Bits64(x) == IF TypeOf(x) = "uint8" THEN <<0, 0, 0, Payload(x)>> ELSE Payload(x)

\* C8 (as claimed), for src/omit/omit.go: Value on an unset container
\* returns (nil, no error); on a set container of a type without a native
\* driver.Valuer a signed integer yields its value as int64, an unsigned
\* integer of any width the int64 of the same numeric value, a bool, a
\* string, a byte slice and a time.Time the held value, and every other
\* kind an error and no value.
C8_Claimed ==
  (impl = "omit" /\ ret.op = "Value") =>
    LET x == ret.pre.value IN
    IF ret.pre.state = StateUnset THEN ret.val = NoVal /\ ret.err = ""
    ELSE T \notin DriverValuers =>
      CASE T = "int" -> ret.err = "" /\ ret.val = Int64Of(Payload(x))
        [] T \in {"uint8", "uint64"} ->
             ret.err = "" /\ SameNumber(ret.val, Bits64(x))
        [] T \in {"bool", "string", "bytes", "ip", "time"} ->
             ret.err = "" /\ ret.val = x
        [] OTHER -> ret.err # "" /\ ret.val = NoVal

\* What Ptr returns: nil exactly when the container is unset, else a pointer
\* that reads the held value.
PtrReadsValue ==
  ret.op = "Ptr" =>
    /\ v = ret.pre
    /\ ret.ptr = "nil" <=> IsUnset(v)
    /\ IsSet(v) => Deref(v, ret) = v.value

\* C9 (as amended): Ptr returns nil if and only if the container is unset;
\* set, the pointer refers to a copy of the held value: it reads the held
\* value, and a write made through it changes the copy and not the
\* container, whose Get returns what it returned before.
C9_PtrIsACopy ==
  /\ PtrReadsValue
  /\ ret.op = "Store" =>
       /\ v = ret.pre
       /\ Deref(v, ret) = ret.arg
       /\ Get(v).r.val = ret.pre.value

\* A value written through the pointer that differs from the held one.
C9_Witness ==
  ret.op = "Store" /\ IsSet(v) /\ ret.arg # v.value /\ ret.cell = ret.arg

\* C9 (as claimed): a write made through the pointer is observed by a
\* following Get on the container.
C9_Claimed ==
  /\ PtrReadsValue
  /\ ret.op = "Store" => Get(v).r.val = ret.arg

\* What a caller can observe of c: its state, and its value when set.
Observable(c) ==
  [state |-> c.state,
   value |-> IF c.state = StateSet THEN c.value ELSE Zero(T)]

\* What a call returned, with the receiver it was made on as observable.
Returns(r) == [r EXCEPT !.pre = Observable(r.pre)]

\* C10 (as claimed): the value stored while unset is never observable: the
\* container and a fresh container paired with it while it was unset, given
\* the same calls, return the same and end in the same observable state.
C10_Claimed ==
  paired => (Observable(v) = Observable(w) /\ Returns(ret) = Returns(retw))

\* The decoding calls: UnmarshalJSON, UnmarshalText and Scan.
DecodeOps == {"UnmarshalJSON", "UnmarshalText", "Scan"}

\* C11 (as claimed): a failed decode never changes the state: whenever
\* UnmarshalJSON, UnmarshalText or Scan returns an error, IsSet reports after
\* the call what it reported before it; an unset container never becomes
\* set through a call that returned an error.
C11_Claimed ==
  (ret.op \in DecodeOps /\ ret.err # "") => IsSet(v) = IsSet(ret.pre)

=============================================================================
